---- MODULE Spec2Model ----
(***************************************************************************)
(* DatabaseCreator (src/DatabaseCreator.py): a session object holding       *)
(* connection parameters and a base engine, with helpers that create a      *)
(* database, generate staging-table DDL from a DataFrame's dtypes, load a   *)
(* DataFrame into a freshly recreated table and run queries.                *)
(*                                                                         *)
(* A SQL string is modelled as the sequence of its words; NL stands for a   *)
(* line break with its indentation, and "" for an empty interpolation.      *)
(* The database server and the driver are modelled as far as the session's  *)
(* calls observe them: connections, transactions, databases, tables.        *)
(***************************************************************************)
EXTENDS Integers, Sequences, FiniteSets, TLC

\* ------------------------------------------------------------------ bounds
MaxCalls == 2
MaxLoadCalls == 3
MaxCols == 2

\* ------------------------------------------------------- program constants
DefaultPort == 5432

\* --------------------------------------------------------------- universes
NL == "\n"
DefaultHost == "localhost"
DefaultBaseDb == "postgres"
db_settings == [user |-> "app", password |-> "secret"]

DbNames == {"postgres", "sales"}
TableNames == {"t1", "t2"}
ColNames == {"id", "name", "score"}
DTypes == {"int64", "float64", "bool", "string", "object", "datetime64"}

\* pandas.api.types predicates, as the dtype tags they accept
is_integer_dtype(dtype) == dtype \in {"int64"}
is_float_dtype(dtype) == dtype \in {"float64"}
is_bool_dtype(dtype) == dtype \in {"bool"}
is_string_dtype(dtype) == dtype \in {"string", "object"}
is_object_dtype(dtype) == dtype \in {"object"}

\* A DataFrame: its columns in order, each <<name, dtype>>, and its row count.
DataFrame(cols, n) == [cols |-> cols, nrows |-> n]
NoData == DataFrame(<<>>, 0)

ExampleCols == << <<"id", "int64">>, <<"name", "string">>,
                  <<"active", "bool">>, <<"score", "float64">> >>

\* overrides: None, or a dict from column name to SQL type
NoneOverrides == [none |-> TRUE, dict |-> [c \in {} |-> ""]]
Dict(d) == [none |-> FALSE, dict |-> d]
OverrideSet ==
    { NoneOverrides,
      Dict([c \in {} |-> ""]),
      Dict([c \in {"id"} |-> "BIGINT"]),
      Dict([c \in {"name", "ghost"} |-> IF c = "name" THEN "VARCHAR" ELSE "DATE"]) }

\* ----------------------------------------------------------- pure helpers
RECURSIVE Join(_, _)
\* str.join: the parts with sep between consecutive parts
Join(sep, parts) ==
    IF parts = <<>> THEN <<>>
    ELSE IF Len(parts) = 1 THEN parts[1]
    ELSE parts[1] \o sep \o Join(sep, Tail(parts))

RECURSIVE LStrip(_)
LStrip(s) == IF s # <<>> /\ Head(s) = NL THEN LStrip(Tail(s)) ELSE s

RECURSIVE RStrip(_)
RStrip(s) ==
    IF s # <<>> /\ s[Len(s)] = NL THEN RStrip(SubSeq(s, 1, Len(s) - 1)) ELSE s

\* str.strip: leading and trailing whitespace removed
Strip(s) == RStrip(LStrip(s))

\* dict.get(key, default)
Get(d, key, default) == IF key \in DOMAIN d THEN d[key] ELSE default

map_dtype_to_sql_Numericless(dtype) ==
    IF is_integer_dtype(dtype) THEN "INTEGER"
    ELSE IF is_float_dtype(dtype) THEN "NUMERIC"
    ELSE IF is_bool_dtype(dtype) THEN "BOOLEAN"
    ELSE "TEXT"

map_dtype_to_sql(dtype) ==
    IF is_integer_dtype(dtype) THEN "NUMERIC"
    ELSE IF is_float_dtype(dtype) THEN "NUMERIC"
    ELSE IF is_bool_dtype(dtype) THEN "BOOLEAN"
    ELSE IF is_string_dtype(dtype) \/ is_object_dtype(dtype) THEN "TEXT"
    ELSE "TEXT"

\* lines 67-70: one "<col> <sql_type>" per column of df.dtypes, in order
col_defs_InferredOnly(df, overrides) ==
    [i \in 1..Len(df.cols) |->
        << df.cols[i][1], map_dtype_to_sql(df.cols[i][2]) >>]

col_defs(df, overrides) ==
    [i \in 1..Len(df.cols) |->
        << df.cols[i][1],
           Get(overrides, df.cols[i][1], map_dtype_to_sql(df.cols[i][2])) >>]

\* lines 62-79: the stripped SQL text of DROP TABLE IF EXISTS + CREATE TABLE
StagingSql(df, table_name, unlogged, overrides) ==
    LET ov == IF overrides.none THEN [c \in {} |-> ""] ELSE overrides.dict
        table_type == IF unlogged THEN "UNLOGGED" ELSE ""
        col_defs_str == Join(<<",", NL>>, col_defs(df, ov))
        sql == <<NL, "DROP", "TABLE", "IF", "EXISTS", table_name, "CASCADE", ";",
                 NL, "CREATE", table_type, "TABLE", table_name, "(", NL>>
               \o col_defs_str \o <<NL, ")", ";">>
    IN  Strip(sql)

\* line 18: the connection string of _create_engine
connection_string(user, password, host, port, dbname) ==
    <<"postgresql+psycopg2://", user, ":", password, "@", host, ":",
      ToString(port), "/", dbname>>

\* the database a connection string names: its last component
UrlDatabase(url) == url[Len(url)]

\* --------------------------------------------------- the database server
NoTable == [exists |-> FALSE, cols |-> <<>>, rows |-> 0, unlogged |-> FALSE]
NoSnapshot == [columns |-> <<>>, nrows |-> -1]
TableAt(tbls, n) == IF n \in DOMAIN tbls THEN tbls[n] ELSE NoTable

Words(sql) == SelectSeq(sql, LAMBDA w : w \notin {NL, ""})

Stmt(kind, name, cols, unlogged) ==
    [kind |-> kind, name |-> name, cols |-> cols, unlogged |-> unlogged]

\* the column list between the parentheses of CREATE TABLE
ParseColumns(body) ==
    LET n == (Len(body) + 1) \div 3
    IN  IF body = <<>> THEN [ok |-> TRUE, cols |-> <<>>]
        ELSE IF (Len(body) + 1) % 3 = 0
                /\ (\A i \in 1..(n - 1) : body[3 * i] = ",")
                /\ (\A m \in 1..Len(body) : (m % 3 # 0) => body[m] # ",")
             THEN [ok |-> TRUE,
                   cols |-> [i \in 1..n |-> << body[3 * i - 2], body[3 * i - 1] >>]]
             ELSE [ok |-> FALSE, cols |-> <<>>]

ParseCreateTable(w) ==
    LET unlogged == Len(w) >= 2 /\ w[2] = "UNLOGGED"
        k == IF unlogged THEN 3 ELSE 2
    IN  IF Len(w) >= k + 3 /\ w[1] = "CREATE" /\ w[k] = "TABLE"
           /\ w[k + 2] = "(" /\ w[Len(w)] = ")"
           /\ ParseColumns(SubSeq(w, k + 3, Len(w) - 1)).ok
        THEN Stmt("CREATE_TABLE", w[k + 1],
                  ParseColumns(SubSeq(w, k + 3, Len(w) - 1)).cols, unlogged)
        ELSE Stmt("ERROR", "", <<>>, FALSE)

\* one statement, from its words
ParseOne(w) ==
    IF w = <<"COMMIT">> THEN Stmt("COMMIT", "", <<>>, FALSE)
    ELSE IF Len(w) = 3 /\ w[1] = "CREATE" /\ w[2] = "DATABASE"
        THEN Stmt("CREATE_DATABASE", w[3], <<>>, FALSE)
    ELSE IF Len(w) = 6 /\ SubSeq(w, 1, 4) = <<"DROP", "TABLE", "IF", "EXISTS">>
            /\ w[6] = "CASCADE"
        THEN Stmt("DROP_TABLE", w[5], <<>>, FALSE)
    ELSE IF Len(w) = 4 /\ SubSeq(w, 1, 3) = <<"SELECT", "*", "FROM">>
        THEN Stmt("SELECT", w[4], <<>>, FALSE)
    ELSE IF Len(w) = 3 /\ SubSeq(w, 1, 2) = <<"DELETE", "FROM">>
        THEN Stmt("DELETE", w[3], <<>>, FALSE)
    ELSE ParseCreateTable(w)

RECURSIVE SplitStatements(_)
\* the statements of a script: its words cut at each ";"
SplitStatements(w) ==
    IF w = <<>> THEN <<>>
    ELSE LET semi == {i \in 1..Len(w) : w[i] = ";"}
         IN  IF semi = {} THEN <<w>>
             ELSE LET j == CHOOSE i \in semi : \A m \in semi : i <= m
                  IN  <<SubSeq(w, 1, j - 1)>> \o SplitStatements(SubSeq(w, j + 1, Len(w)))

ParseScript(sql) ==
    LET parts == SplitStatements(Words(sql))
    IN  [i \in 1..Len(parts) |-> ParseOne(parts[i])]

Kinds(stmts) == [i \in 1..Len(stmts) |-> stmts[i].kind]

ColumnNames(cols) == [i \in 1..Len(cols) |-> cols[i][1]]
HasDuplicates(s) == \E i, j \in 1..Len(s) : i < j /\ s[i] = s[j]

\* one table statement applied to the tables: [err, tables]
ApplyOne(tbls, st) ==
    CASE st.kind = "DROP_TABLE" ->
           [err |-> "",
            tables |-> [n \in DOMAIN tbls |-> IF n = st.name THEN NoTable ELSE tbls[n]]]
      [] st.kind = "CREATE_TABLE" ->
           IF st.name \notin DOMAIN tbls THEN [err |-> "InvalidName", tables |-> tbls]
           ELSE IF tbls[st.name].exists THEN [err |-> "DuplicateTable", tables |-> tbls]
           ELSE IF HasDuplicates(ColumnNames(st.cols))
                THEN [err |-> "DuplicateColumn", tables |-> tbls]
           ELSE [err |-> "",
                 tables |-> [tbls EXCEPT ![st.name] =
                    [exists |-> TRUE, cols |-> st.cols, rows |-> 0,
                     unlogged |-> st.unlogged]]]
      [] st.kind = "DELETE" ->
           IF ~TableAt(tbls, st.name).exists
           THEN [err |-> "UndefinedTable", tables |-> tbls]
           ELSE [err |-> "", tables |-> [tbls EXCEPT ![st.name].rows = 0]]
      [] st.kind = "SELECT" ->
           IF ~TableAt(tbls, st.name).exists
           THEN [err |-> "UndefinedTable", tables |-> tbls]
           ELSE [err |-> "", tables |-> tbls]
      [] OTHER -> [err |-> "SyntaxError", tables |-> tbls]

RECURSIVE ApplyAll(_, _)
\* the statements applied in order, stopping at the first error
ApplyAll(tbls, stmts) ==
    IF stmts = <<>> THEN [err |-> "", tables |-> tbls]
    ELSE LET r == ApplyOne(tbls, Head(stmts))
         IN  IF r.err # "" THEN [err |-> r.err, tables |-> tbls]
             ELSE ApplyAll(r.tables, Tail(stmts))

\* SELECT * FROM t materialised: the column names and the row count
Snapshot(tbls, n) ==
    [columns |-> ColumnNames(TableAt(tbls, n).cols), nrows |-> TableAt(tbls, n).rows]

\* A connection: the database it is on, whether the driver has begun a
\* transaction, whether the server has one open, and the statements of the
\* open transaction, which take effect at its commit.
NewConnection(call, db) ==
    [call |-> call, db |-> db, began |-> FALSE, intx |-> FALSE, work |-> <<>>]

\* The driver begins a transaction before the first statement of a connection.
AutoBegin(c) == IF c.began THEN c ELSE [c EXCEPT !.began = TRUE, !.intx = TRUE]

Outcome(err, c, dbs, tbls, snap) ==
    [err |-> err, conn |-> c, databases |-> dbs, tables |-> tbls, snapshot |-> snap]

\* conn.execute(text(sql)) / pd.read_sql(sql, conn): the server's answer
ServerExecute(c0, sql, dbs, tbls) ==
    LET c == AutoBegin(c0)
        stmts == ParseScript(sql)
        kinds == Kinds(stmts)
        fail(e) == Outcome(e, c, dbs, tbls, NoSnapshot)
    IN  IF stmts = <<>> \/ \E i \in 1..Len(stmts) : kinds[i] = "ERROR"
        THEN fail("SyntaxError")
        ELSE IF kinds = <<"COMMIT">>
        THEN LET r == ApplyAll(tbls, c.work)
             IN  IF r.err # "" THEN fail(r.err)
                 ELSE Outcome("", [c EXCEPT !.intx = FALSE, !.work = <<>>],
                              dbs, r.tables, NoSnapshot)
        ELSE IF kinds = <<"CREATE_DATABASE">>
        THEN IF c.intx THEN fail("ActiveSqlTransaction")
             ELSE IF stmts[1].name \in dbs THEN fail("DuplicateDatabase")
             ELSE Outcome("", c, dbs \cup {stmts[1].name}, tbls, NoSnapshot)
        ELSE IF \E i \in 1..Len(stmts) : kinds[i] \in {"COMMIT", "CREATE_DATABASE"}
        THEN fail("SyntaxError")
        ELSE LET r == ApplyAll(tbls, c.work \o stmts)
                 last == stmts[Len(stmts)]
                 snap == IF last.kind = "SELECT" THEN Snapshot(r.tables, last.name)
                         ELSE NoSnapshot
             IN  IF r.err # "" THEN fail(r.err)
                 ELSE IF c.intx
                 THEN Outcome("", [c EXCEPT !.work = c.work \o stmts], dbs, tbls, snap)
                 ELSE Outcome("", c, dbs, r.tables, snap)

\* conn.commit()
ServerCommit(c, dbs, tbls) ==
    LET r == ApplyAll(tbls, c.work)
        done == [c EXCEPT !.began = FALSE, !.intx = FALSE, !.work = <<>>]
    IN  IF ~c.intx THEN Outcome("", done, dbs, tbls, NoSnapshot)
        ELSE IF r.err # "" THEN Outcome(r.err, c, dbs, tbls, NoSnapshot)
        ELSE Outcome("", done, dbs, r.tables, NoSnapshot)

\* DataFrame.to_sql(name, con=engine, if_exists='append', index=False), done
\* on a connection of its own: the table is created when it is missing, the
\* rows are appended to what the table holds; `loaded` rows arrive.
pandas_sql_type(dtype) ==
    IF is_integer_dtype(dtype) THEN "BIGINT"
    ELSE IF is_float_dtype(dtype) THEN "FLOAT"
    ELSE IF is_bool_dtype(dtype) THEN "BOOLEAN"
    ELSE "TEXT"

to_sql(df, name, tbls, loaded) ==
    LET t == TableAt(tbls, name)
        names == ColumnNames(df.cols)
    IN  IF name \notin DOMAIN tbls THEN [err |-> "InvalidName", tables |-> tbls]
        ELSE IF ~t.exists
        THEN IF HasDuplicates(names) THEN [err |-> "DuplicateColumn", tables |-> tbls]
             ELSE [err |-> IF loaded = df.nrows THEN "" ELSE "DataError",
                   tables |-> [tbls EXCEPT ![name] =
                      [exists |-> TRUE,
                       cols |-> [i \in 1..Len(df.cols) |->
                                   << df.cols[i][1], pandas_sql_type(df.cols[i][2]) >>],
                       rows |-> loaded, unlogged |-> FALSE]]]
        ELSE IF \E i \in 1..Len(names) :
                    names[i] \notin {t.cols[j][1] : j \in 1..Len(t.cols)}
        THEN [err |-> "UndefinedColumn", tables |-> tbls]
        ELSE [err |-> IF loaded = df.nrows THEN "" ELSE "DataError",
              tables |-> [tbls EXCEPT ![name].rows = t.rows + loaded]]


\* ------------------------------------------------------------ the session
Threads == {1, 2}

VARIABLES
    self,        \* the DatabaseCreator object's attributes
    databases,   \* the server's databases
    tables,      \* the base database's tables, by name
    conns,       \* the open connections
    nconns,      \* connections opened so far
    engines,     \* engines created so far
    handles,     \* the engines get_engine_for has returned
    pc,          \* each caller thread's position
    frame,       \* each caller thread's call: arguments and locals
    ret,         \* each caller thread's last completed call
    ncalls,      \* calls started so far
    limit,       \* calls the callers make in all
    threads      \* the threads that call the session

vars == <<self, databases, tables, conns, nconns, engines, handles,
          pc, frame, ret, ncalls, limit, threads>>

UnsetData == DataFrame(<<>>, -1)
UnsetName == "<unset>"
UnsetSql == <<>>

NoEngine == [url |-> <<>>, id |-> 0]
NoValue == [sqltype |-> "", sql |-> <<>>, df |-> NoSnapshot, engine |-> NoEngine]
NoArgs == [dtype |-> "", df |-> NoData, table_name |-> "", unlogged |-> FALSE,
           overrides |-> NoneOverrides, name |-> "", query |-> <<>>]
IdleFrame == [op |-> "", call |-> 0, args |-> NoArgs, df |-> NoData, tname |-> "",
              unlogged |-> FALSE, overrides |-> NoneOverrides, sql |-> <<>>,
              conn |-> 0, err |-> "", trace |-> <<>>, value |-> NoValue,
              before |-> NoSnapshot]
NoRet == [op |-> "", call |-> 0, args |-> NoArgs, status |-> "", value |-> NoValue,
          trace |-> <<>>, before |-> NoSnapshot]

\* lines 16-19
_create_engine(s, dbname, id) ==
    [url |-> connection_string(s.user, s.password, s.host, s.port, dbname),
     id |-> id]

\* lines 7-14
NewSession ==
    LET s == [user |-> db_settings.user, password |-> db_settings.password,
              host |-> DefaultHost, port |-> DefaultPort, base_db |-> DefaultBaseDb,
              engine |-> NoEngine, insert_table_sql_query |-> UnsetSql,
              table_name |-> UnsetName, data |-> UnsetData]
    IN  [s EXCEPT !.engine = _create_engine(s, s.base_db, 1)]

InitWith(callers, calls) ==
    /\ self = NewSession
    /\ databases = {DefaultBaseDb}
    /\ tables = [n \in TableNames |-> NoTable]
    /\ conns = {}
    /\ nconns = 0
    /\ engines = 1
    /\ handles = {}
    /\ pc = [t \in Threads |-> "idle"]
    /\ frame = [t \in Threads |-> IdleFrame]
    /\ ret = [t \in Threads |-> NoRet]
    /\ ncalls = 0
    /\ limit = calls
    /\ threads = callers

Init == InitWith({1}, MaxCalls)

\* the inputs of the calls
LoadData ==
    { DataFrame(<< <<"id", "int64">>, <<"name", "string">> >>, 2),
      DataFrame(<< <<"score", "float64">> >>, 1),
      DataFrame(<< <<"id", "int64">>, <<"id", "float64">> >>, 1) }
SelectFrom(table_name) == <<"SELECT", "*", "FROM", table_name>>
Queries == {SelectFrom(n) : n \in TableNames}
Statements == {<<"DELETE", "FROM", n>> : n \in TableNames}

Event(kinds, conn, err, intx) ==
    [kinds |-> kinds, conn |-> conn, err |-> err, intx |-> intx]

ConnOf(t) == CHOOSE c \in conns : c.id = frame[t].conn

\* ------------------------------------------------------------ call and return
\* a call's frame: the parameters bound to the arguments; `before` notes
\* what the table named by the call held when the call began
NewFrame(op, call, args, tbls) ==
    [IdleFrame EXCEPT !.op = op, !.call = call, !.args = args,
                      !.df = args.df, !.tname = args.table_name,
                      !.unlogged = args.unlogged, !.overrides = args.overrides,
                      !.before = Snapshot(tbls, args.table_name)]

Call(t, op, args, first) ==
    /\ t \in threads
    /\ pc[t] = "idle"
    /\ ncalls < limit
    /\ ncalls' = ncalls + 1
    /\ frame' = [frame EXCEPT ![t] = NewFrame(op, ncalls + 1, args, tables)]
    /\ pc' = [pc EXCEPT ![t] = first]
    /\ UNCHANGED <<self, databases, tables, conns, nconns, engines, handles, ret,
                   limit, threads>>

Completed(f, status, value) ==
    [op |-> f.op, call |-> f.call, args |-> f.args, status |-> status,
     value |-> value, trace |-> f.trace, before |-> f.before]

\* the call ends: its result, or the exception it raised, reaches the caller
Return(t, f, status, value) ==
    /\ ret' = [ret EXCEPT ![t] = Completed(f, status, value)]
    /\ frame' = [frame EXCEPT ![t] = IdleFrame]
    /\ pc' = [pc EXCEPT ![t] = "idle"]

\* --------------------------------------------------- the with-block steps
\* `with self.engine.connect() as conn:` entered
Connect(t, from, next) ==
    /\ t \in threads
    /\ pc[t] = from
    /\ \E fault \in BOOLEAN :
          LET db == UrlDatabase(self.engine.url)
          IN  IF fault \/ db \notin databases
              THEN /\ Return(t, frame[t], "OperationalError", NoValue)
                   /\ UNCHANGED <<conns, nconns>>
              ELSE /\ conns' = conns \cup
                         {[id |-> nconns + 1] @@ NewConnection(frame[t].call, db)}
                   /\ nconns' = nconns + 1
                   /\ frame' = [frame EXCEPT ![t].conn = nconns + 1]
                   /\ pc' = [pc EXCEPT ![t] = next]
                   /\ UNCHANGED ret
    /\ UNCHANGED <<self, databases, tables, engines, handles, ncalls, limit, threads>>

\* where a statement of a with block leads: on, or out of the block when it raises
OnStatement_Swallow(ok, next, exit) == next

OnStatement(ok, next, exit) == IF ok THEN next ELSE exit

\* the connections after a with block is left
Release_OnSuccessOnly(cs, id, raised) ==
    IF raised THEN cs ELSE {c \in cs : c.id # id}

Release(cs, id, raised) == {c \in cs : c.id # id}

\* conn.execute(text(sql)) or pd.read_sql(sql, conn) inside the with block
Execute(t, from, sql, next, exit) ==
    /\ t \in threads
    /\ pc[t] = from
    /\ \E fault \in BOOLEAN :
          LET c == ConnOf(t)
              cr == [k \in DOMAIN c \ {"id"} |-> c[k]]
              o == IF fault
                   THEN Outcome("OperationalError", AutoBegin(cr), databases, tables,
                                NoSnapshot)
                   ELSE ServerExecute(cr, sql, databases, tables)
              ev == Event(Kinds(ParseScript(sql)), c.id, o.err, AutoBegin(cr).intx)
          IN  /\ conns' = (conns \ {c}) \cup {[id |-> c.id] @@ o.conn}
              /\ databases' = o.databases
              /\ tables' = o.tables
              /\ frame' = [frame EXCEPT ![t].err = o.err,
                                        ![t].trace = Append(@, ev),
                                        ![t].value.df = o.snapshot]
              /\ pc' = [pc EXCEPT ![t] = OnStatement(o.err = "", next, exit)]
    /\ UNCHANGED <<self, nconns, engines, handles, ret, ncalls, limit, threads>>

\* conn.commit() inside the with block
Commit(t, from, next, exit) ==
    /\ t \in threads
    /\ pc[t] = from
    /\ \E fault \in BOOLEAN :
          LET c == ConnOf(t)
              cr == [k \in DOMAIN c \ {"id"} |-> c[k]]
              o == IF fault
                   THEN Outcome("OperationalError", cr, databases, tables, NoSnapshot)
                   ELSE ServerCommit(cr, databases, tables)
              ev == Event(<<"commit()">>, c.id, o.err, cr.intx)
          IN  /\ conns' = (conns \ {c}) \cup {[id |-> c.id] @@ o.conn}
              /\ databases' = o.databases
              /\ tables' = o.tables
              /\ frame' = [frame EXCEPT ![t].err = o.err, ![t].trace = Append(@, ev)]
              /\ pc' = [pc EXCEPT ![t] = OnStatement(o.err = "", next, exit)]
    /\ UNCHANGED <<self, nconns, engines, handles, ret, ncalls, limit, threads>>

\* the with block is left: the connection is closed (an open transaction is
\* rolled back with it), then the exception, if any, goes on to the caller
ExitWith(t, from, next) ==
    /\ t \in threads
    /\ pc[t] = from
    /\ conns' = Release(conns, frame[t].conn, frame[t].err # "")
    /\ IF frame[t].err # ""
       THEN Return(t, frame[t], frame[t].err, NoValue)
       ELSE IF next = "return"
       THEN Return(t, frame[t], "ok", frame[t].value)
       ELSE /\ pc' = [pc EXCEPT ![t] = next]
            /\ frame' = [frame EXCEPT ![t].conn = 0]
            /\ UNCHANGED ret
    /\ UNCHANGED <<self, databases, tables, nconns, engines, handles, ncalls, limit, threads>>

\* ------------------------------------------------ create_database, lines 21-25
CallCreateDatabase(t) ==
    \E name \in DbNames :
        Call(t, "create_database", [NoArgs EXCEPT !.name = name], "cd_connect")

CdConnect(t) == Connect(t, "cd_connect", "cd_commit")

CdCommit_Skip(t) ==
    /\ t \in threads
    /\ pc[t] = "cd_commit"
    /\ pc' = [pc EXCEPT ![t] = "cd_create"]
    /\ UNCHANGED <<self, databases, tables, conns, nconns, engines, handles, frame,
                   ret, ncalls, limit, threads>>

\* line 24
CdCommit(t) == Execute(t, "cd_commit", <<"COMMIT">>, "cd_create", "cd_exit")

\* line 25
CdCreate(t) ==
    Execute(t, "cd_create", <<"CREATE", "DATABASE", frame[t].args.name>>,
            "cd_exit", "cd_exit")

CdExit_Suppress(t) ==
    /\ t \in threads
    /\ pc[t] = "cd_exit"
    /\ conns' = Release(conns, frame[t].conn, FALSE)
    /\ Return(t, frame[t], "ok", frame[t].value)
    /\ UNCHANGED <<self, databases, tables, nconns, engines, handles, ncalls, limit, threads>>

CdExit(t) == ExitWith(t, "cd_exit", "return")

\* ------------------------------------------------ get_engine_for, lines 27-29
CallGetEngineFor(t) ==
    \E dbname \in DbNames :
        Call(t, "get_engine_for", [NoArgs EXCEPT !.name = dbname], "ge_body")

GetEngineFor_Repoint(t) ==
    /\ t \in threads
    /\ pc[t] = "ge_body"
    /\ LET e == _create_engine(self, frame[t].args.name, engines + 1)
       IN  /\ engines' = engines + 1
           /\ handles' = handles \cup {e}
           /\ self' = [self EXCEPT !.engine = e]
           /\ Return(t, frame[t], "ok", [NoValue EXCEPT !.engine = e])
    /\ UNCHANGED <<databases, tables, conns, nconns, ncalls, limit, threads>>

GetEngineFor(t) ==
    /\ t \in threads
    /\ pc[t] = "ge_body"
    /\ LET e == _create_engine(self, frame[t].args.name, engines + 1)
       IN  /\ engines' = engines + 1
           /\ handles' = handles \cup {e}
           /\ Return(t, frame[t], "ok", [NoValue EXCEPT !.engine = e])
    /\ UNCHANGED <<self, databases, tables, conns, nconns, ncalls, limit, threads>>

\* ---------------------------------------------- map_dtype_to_sql, lines 33-44
CallMapDtype(t) ==
    \E dtype \in {"int64", "datetime64"} :
        Call(t, "map_dtype_to_sql", [NoArgs EXCEPT !.dtype = dtype], "md_body")

MapDtype(t) ==
    /\ t \in threads
    /\ pc[t] = "md_body"
    /\ Return(t, frame[t], "ok",
              [NoValue EXCEPT !.sqltype = map_dtype_to_sql(frame[t].args.dtype)])
    /\ UNCHANGED <<self, databases, tables, conns, nconns, engines, handles, ncalls,
                   limit, threads>>

\* ------------------------------ create_staging_table_sql_from_df, lines 46-81
CallStagingSql(t) ==
    \E d \in {DataFrame(ExampleCols, 0)}, n \in {"t1"}, u \in BOOLEAN,
       o \in {NoneOverrides, Dict([c \in {"id"} |-> "BIGINT"])} :
        Call(t, "create_staging_table_sql_from_df",
             [NoArgs EXCEPT !.df = d, !.table_name = n, !.unlogged = u,
                            !.overrides = o],
             "gen_build")

\* lines 62-79: the text is built and kept in self.insert_table_sql_query
GenBuild(t) ==
    /\ t \in threads
    /\ pc[t] = "gen_build"
    /\ self' = [self EXCEPT !.insert_table_sql_query =
                   StagingSql(frame[t].df, frame[t].tname, frame[t].unlogged,
                              frame[t].overrides)]
    /\ pc' = [pc EXCEPT ![t] = "gen_return"]
    /\ UNCHANGED <<databases, tables, conns, nconns, engines, handles, frame, ret,
                   ncalls, limit, threads>>

\* line 81: self.insert_table_sql_query is read back and returned
GenReturn(t) ==
    /\ t \in threads
    /\ pc[t] = "gen_return"
    /\ IF frame[t].op = "create_staging_table_then_insert_data"
       THEN /\ frame' = [frame EXCEPT ![t].sql = self.insert_table_sql_query]
            /\ pc' = [pc EXCEPT ![t] = "ld_exec"]
            /\ UNCHANGED ret
       ELSE Return(t, frame[t], "ok",
                   [NoValue EXCEPT !.sql = self.insert_table_sql_query])
    /\ UNCHANGED <<self, databases, tables, conns, nconns, engines, handles, ncalls,
                   limit, threads>>

\* ------------------------ create_staging_table_then_insert_data, lines 83-89
CallLoad(t) ==
    \E n \in TableNames, d \in LoadData :
        Call(t, "create_staging_table_then_insert_data",
             [NoArgs EXCEPT !.table_name = n, !.df = d], "ld_set_table")

\* line 84
LdSetTable(t) ==
    /\ t \in threads
    /\ pc[t] = "ld_set_table"
    /\ self' = [self EXCEPT !.table_name = frame[t].args.table_name]
    /\ pc' = [pc EXCEPT ![t] = "ld_set_data"]
    /\ UNCHANGED <<databases, tables, conns, nconns, engines, handles, frame, ret,
                   ncalls, limit, threads>>

LdSetData_Skip(t) ==
    /\ t \in threads
    /\ pc[t] = "ld_set_data"
    /\ pc' = [pc EXCEPT ![t] = "ld_connect"]
    /\ UNCHANGED <<self, databases, tables, conns, nconns, engines, handles, frame,
                   ret, ncalls, limit, threads>>

\* line 85
LdSetData(t) ==
    /\ t \in threads
    /\ pc[t] = "ld_set_data"
    /\ self' = [self EXCEPT !.data = frame[t].args.df]
    /\ pc' = [pc EXCEPT ![t] = "ld_connect"]
    /\ UNCHANGED <<databases, tables, conns, nconns, engines, handles, frame, ret,
                   ncalls, limit, threads>>

\* line 86
LdConnect(t) == Connect(t, "ld_connect", "ld_args")

\* line 87: the arguments self.data and self.table_name are read; unlogged and
\* overrides take their defaults
LdArgs(t) ==
    /\ t \in threads
    /\ pc[t] = "ld_args"
    /\ frame' = [frame EXCEPT ![t].df = self.data, ![t].tname = self.table_name,
                              ![t].unlogged = FALSE, ![t].overrides = NoneOverrides]
    /\ pc' = [pc EXCEPT ![t] = "gen_build"]
    /\ UNCHANGED <<self, databases, tables, conns, nconns, engines, handles, ret,
                   ncalls, limit, threads>>

\* line 87: conn.execute(text(<the returned SQL>))
LdExec(t) == Execute(t, "ld_exec", frame[t].sql, "ld_commit", "ld_exit")

LdCommit_Skip(t) ==
    /\ t \in threads
    /\ pc[t] = "ld_commit"
    /\ pc' = [pc EXCEPT ![t] = "ld_exit"]
    /\ UNCHANGED <<self, databases, tables, conns, nconns, engines, handles, frame,
                   ret, ncalls, limit, threads>>

\* line 88
LdCommit(t) == Commit(t, "ld_commit", "ld_exit", "ld_exit")

\* line 86, the block's end
LdExit(t) == ExitWith(t, "ld_exit", "ld_insert_args")

\* line 89: self.data and self.table_name are read
LdInsertArgs(t) ==
    /\ t \in threads
    /\ pc[t] = "ld_insert_args"
    /\ frame' = [frame EXCEPT ![t].df = self.data, ![t].tname = self.table_name]
    /\ pc' = [pc EXCEPT ![t] = "ld_insert"]
    /\ UNCHANGED <<self, databases, tables, conns, nconns, engines, handles, ret,
                   ncalls, limit, threads>>

\* line 89: to_sql appends the rows on a connection of its own, which it
\* closes; when it raises, some of the rows may have arrived
LdInsert(t) ==
    /\ t \in threads
    /\ pc[t] = "ld_insert"
    /\ \E fault \in BOOLEAN, loaded \in 0..frame[t].df.nrows :
          LET r == IF fault \/ UrlDatabase(self.engine.url) \notin databases
                   THEN [err |-> "OperationalError", tables |-> tables]
                   ELSE to_sql(frame[t].df, frame[t].tname, tables, loaded)
              ev == Event(<<"to_sql">>, nconns + 1, r.err, TRUE)
              f == [frame[t] EXCEPT !.trace = Append(@, ev)]
          IN  /\ tables' = r.tables
              /\ nconns' = nconns + 1
              /\ Return(t, f, IF r.err = "" THEN "ok" ELSE r.err, NoValue)
    /\ UNCHANGED <<self, databases, conns, engines, handles, ncalls, limit, threads>>

\* ------------------- table_to_df, sql_query_to_df, run_sql, lines 91-104
CallTableToDf(t) ==
    \E n \in TableNames :
        Call(t, "table_to_df", [NoArgs EXCEPT !.table_name = n], "rd_connect")

CallSqlQueryToDf(t) ==
    \E q \in Queries :
        Call(t, "sql_query_to_df", [NoArgs EXCEPT !.query = q], "rd_connect")

CallRunSql(t) ==
    \E q \in Queries : Call(t, "run_sql", [NoArgs EXCEPT !.query = q], "rd_connect")

RdConnect(t) == Connect(t, "rd_connect", "rd_read")

\* lines 93, 98, 103: the query text handed to pd.read_sql
QueryText(f) ==
    IF f.op = "table_to_df" THEN SelectFrom(f.args.table_name) ELSE f.args.query

RdRead(t) == Execute(t, "rd_read", QueryText(frame[t]), "rd_exit", "rd_exit")

RdExit(t) == ExitWith(t, "rd_exit", "return")

\* ------------------------------------------------- execute_sql, lines 106-110
CallExecuteSql(t) ==
    \E q \in Statements :
        Call(t, "execute_sql", [NoArgs EXCEPT !.query = q], "ex_connect")

ExConnect(t) == Connect(t, "ex_connect", "ex_exec")

ExExec(t) == Execute(t, "ex_exec", frame[t].args.query, "ex_commit", "ex_exit")

ExCommit(t) == Commit(t, "ex_commit", "ex_exit", "ex_exit")

ExExit(t) == ExitWith(t, "ex_exit", "return")

\* ------------------------------------------------------ the specifications
Next ==
    \E t \in Threads :
        \/ CallCreateDatabase(t) \/ CdConnect(t) \/ CdCommit(t) \/ CdCreate(t)
        \/ CdExit(t)
        \/ CallGetEngineFor(t) \/ GetEngineFor(t)
        \/ CallMapDtype(t) \/ MapDtype(t)
        \/ CallStagingSql(t) \/ GenBuild(t) \/ GenReturn(t)
        \/ CallLoad(t) \/ LdSetTable(t) \/ LdSetData(t) \/ LdConnect(t) \/ LdArgs(t)
        \/ LdExec(t) \/ LdCommit(t) \/ LdExit(t) \/ LdInsertArgs(t) \/ LdInsert(t)
        \/ CallTableToDf(t) \/ CallSqlQueryToDf(t) \/ CallRunSql(t)
        \/ RdConnect(t) \/ RdRead(t) \/ RdExit(t)
        \/ CallExecuteSql(t) \/ ExConnect(t) \/ ExExec(t) \/ ExCommit(t) \/ ExExit(t)

\* one caller at a time: the session used sequentially
Spec == Init /\ [][Next]_vars

\* one caller that loads tables, reads them back and deletes their rows
InitLoad == InitWith({1}, MaxLoadCalls)

NextLoad ==
    \E t \in Threads :
        \/ CallLoad(t) \/ LdSetTable(t) \/ LdSetData(t) \/ LdConnect(t) \/ LdArgs(t)
        \/ GenBuild(t) \/ GenReturn(t)
        \/ LdExec(t) \/ LdCommit(t) \/ LdExit(t) \/ LdInsertArgs(t) \/ LdInsert(t)
        \/ CallTableToDf(t) \/ RdConnect(t) \/ RdRead(t) \/ RdExit(t)
        \/ CallExecuteSql(t) \/ ExConnect(t) \/ ExExec(t) \/ ExCommit(t) \/ ExExit(t)

SpecLoad == InitLoad /\ [][NextLoad]_vars

\* two threads that load tables through the same session
InitThreads == InitWith({1, 2}, MaxCalls)

NextThreads ==
    \E t \in Threads :
        \/ CallLoad(t) \/ LdSetTable(t) \/ LdSetData(t) \/ LdConnect(t) \/ LdArgs(t)
        \/ GenBuild(t) \/ GenReturn(t)
        \/ LdExec(t) \/ LdCommit(t) \/ LdExit(t) \/ LdInsertArgs(t) \/ LdInsert(t)

SpecThreads == InitThreads /\ [][NextThreads]_vars

\* the two pure functions, each applied once to an input drawn from its domain
PureFrames ==
    {DataFrame(c, 0) :
        c \in UNION {[1..k -> ColNames \X DTypes] : k \in 0..MaxCols} \cup {ExampleCols}}

PureCalls ==
    {NewFrame("map_dtype_to_sql", 1, [NoArgs EXCEPT !.dtype = d],
              [n \in TableNames |-> NoTable]) : d \in DTypes}
    \cup
    {NewFrame("create_staging_table_sql_from_df", 1,
              [NoArgs EXCEPT !.df = a[1], !.table_name = a[2], !.unlogged = a[3],
                             !.overrides = a[4]],
              [n \in TableNames |-> NoTable]) :
        a \in PureFrames \X TableNames \X BOOLEAN \X OverrideSet}

InitPure ==
    /\ self = NewSession
    /\ databases = {DefaultBaseDb}
    /\ tables = [n \in TableNames |-> NoTable]
    /\ conns = {}
    /\ nconns = 0
    /\ engines = 1
    /\ handles = {}
    /\ \E f \in PureCalls :
          /\ frame = [t \in Threads |-> IF t = 1 THEN f ELSE IdleFrame]
          /\ pc = [t \in Threads |->
                     IF t # 1 THEN "idle"
                     ELSE IF f.op = "map_dtype_to_sql" THEN "md_body"
                     ELSE "gen_build"]
    /\ ret = [t \in Threads |-> NoRet]
    /\ ncalls = 1
    /\ limit = 1
    /\ threads = {1}

NextPure == \E t \in Threads : MapDtype(t) \/ GenBuild(t) \/ GenReturn(t)

SpecPure == InitPure /\ [][NextPure]_vars

\* ------------------------------------------------------------------ claims
SqlTypes == {"NUMERIC", "BOOLEAN", "TEXT"}

\* C6: map_dtype_to_sql never fails and returns exactly one of NUMERIC, BOOLEAN,
\* TEXT, decided in priority order: integer-like NUMERIC, else float-like
\* NUMERIC, else boolean-like BOOLEAN, else string- or object-like TEXT, and
\* TEXT for every tag none of these recognises.
C6_MapDtypeTotalAndOrdered ==
    \A t \in Threads :
        ret[t].op = "map_dtype_to_sql" =>
            LET d == ret[t].args.dtype
                v == ret[t].value.sqltype
            IN  /\ ret[t].status = "ok"
                /\ v \in SqlTypes
                /\ is_integer_dtype(d) => v = "NUMERIC"
                /\ (~is_integer_dtype(d) /\ is_float_dtype(d)) => v = "NUMERIC"
                /\ (~is_integer_dtype(d) /\ ~is_float_dtype(d) /\ is_bool_dtype(d))
                      => v = "BOOLEAN"
                /\ (~is_integer_dtype(d) /\ ~is_float_dtype(d) /\ ~is_bool_dtype(d))
                      => v = "TEXT"

\* C6's case: a tag no predicate recognises has been mapped, to TEXT
C6_Witness ==
    \E t \in Threads :
        /\ ret[t].op = "map_dtype_to_sql"
        /\ ret[t].args.dtype = "datetime64"
        /\ ret[t].value.sqltype = "TEXT"

\* the column definitions the server reads out of a generated SQL text
CreatedColumns(sql) ==
    LET stmts == ParseScript(sql)
    IN  stmts[Len(stmts)].cols

\* C7: the generated DDL has exactly one column definition per source column,
\* in source order; a column's type is the override map's value when the
\* column is a key of the map and map_dtype_to_sql of its dtype otherwise; an
\* override key naming no source column adds nothing; id:int64, name:string,
\* active:bool, score:float64 without overrides give id NUMERIC, name TEXT,
\* active BOOLEAN, score NUMERIC.
C7_ColumnDefinitions ==
    \A t \in Threads :
        ret[t].op = "create_staging_table_sql_from_df" =>
            LET a == ret[t].args
                ov == a.overrides.dict
                stmts == ParseScript(ret[t].value.sql)
                cols == CreatedColumns(ret[t].value.sql)
            IN  /\ ret[t].status = "ok"
                /\ Kinds(stmts) = <<"DROP_TABLE", "CREATE_TABLE">>
                /\ Len(cols) = Len(a.df.cols)
                /\ \A i \in 1..Len(cols) :
                      /\ cols[i][1] = a.df.cols[i][1]
                      /\ cols[i][2] =
                            IF a.df.cols[i][1] \in DOMAIN ov THEN ov[a.df.cols[i][1]]
                            ELSE map_dtype_to_sql(a.df.cols[i][2])
                /\ (a.df.cols = ExampleCols /\ DOMAIN ov = {}) =>
                      cols = << <<"id", "NUMERIC">>, <<"name", "TEXT">>,
                                <<"active", "BOOLEAN">>, <<"score", "NUMERIC">> >>

\* C7's case: DDL generated for two columns, one of them overridden, under an
\* override map that also names a column the source does not have
C7_Witness ==
    \E t \in Threads :
        /\ ret[t].op = "create_staging_table_sql_from_df"
        /\ Len(ret[t].args.df.cols) = 2
        /\ ret[t].args.df.cols[2][1] = "name"
        /\ ret[t].args.df.cols[1][1] = "id"
        /\ "ghost" \in DOMAIN ret[t].args.overrides.dict
        /\ CreatedColumns(ret[t].value.sql)[2] = <<"name", "VARCHAR">>

Load == "create_staging_table_then_insert_data"
AllIdle == \A t \in Threads : pc[t] = "idle"
NameSet(cols) == {cols[i][1] : i \in 1..Len(cols)}
ConnIds(tr) == {tr[i].conn : i \in 1..Len(tr)}

\* the statements of a load, in the order the code issues them
LoadSteps == << <<"DROP_TABLE", "CREATE_TABLE">>, <<"commit()">>, <<"to_sql">> >>

LoadTraceInOrder(tr) ==
    /\ Len(tr) <= 3
    /\ \A i \in 1..Len(tr) :
          /\ tr[i].kinds = LoadSteps[i]
          /\ (i < Len(tr)) => tr[i].err = ""

\* C1: create_staging_table_then_insert_data issues drop+create, commit, bulk
\* insert in that order and stops at the first step that fails, whose error is
\* the call's: after a failed DDL no commit and no insert, after a failed
\* insert no further statement, and the table created stays, holding fewer
\* rows than the data.
C1_LoadStopsAtFirstFailure ==
    \A t \in Threads :
        /\ frame[t].op = Load =>
              /\ LoadTraceInOrder(frame[t].trace)
              /\ (frame[t].trace # <<>>
                  /\ frame[t].trace[Len(frame[t].trace)].err # "")
                    => pc[t] = "ld_exit"
        /\ ret[t].op = Load =>
              LET tr == ret[t].trace
                  tb == TableAt(tables, ret[t].args.table_name)
              IN  /\ LoadTraceInOrder(tr)
                  /\ (ret[t].status = "ok") <=> (Len(tr) = 3 /\ tr[3].err = "")
                  /\ (ret[t].status # "ok" /\ tr # <<>>)
                        => ret[t].status = tr[Len(tr)].err
                  /\ (ret[t].status # "ok" /\ tr = <<>>)
                        => ret[t].status = "OperationalError"
                  /\ (Len(tr) = 3 /\ tr[3].err # "")
                        => tb.exists /\ tb.rows < ret[t].args.df.nrows

\* C1's case: the insert failed after the DDL was committed, and the table is
\* there with part of the rows
C1_Witness ==
    \E t \in Threads :
        /\ ret[t].op = Load
        /\ Len(ret[t].trace) = 3
        /\ ret[t].trace[3].err = "DataError"
        /\ TableAt(tables, ret[t].args.table_name).rows = 1

\* C2: a successful create_staging_table_then_insert_data(t, d) followed by
\* table_to_df(t) returns d's column set and d's row count, whatever t held.
C2_LoadThenReadReturnsData ==
    [][\A t \in Threads :
          ( /\ pc[t] = "rd_exit" /\ pc'[t] = "idle"
            /\ frame[t].op = "table_to_df"
            /\ ret'[t].status = "ok"
            /\ ret[t].op = Load /\ ret[t].status = "ok"
            /\ ret[t].args.table_name = frame[t].args.table_name )
          => /\ ret'[t].value.df.nrows = ret[t].args.df.nrows
             /\ {ret'[t].value.df.columns[i] :
                    i \in 1..Len(ret'[t].value.df.columns)}
                  = NameSet(ret[t].args.df.cols)
      ]_vars

\* C2's case: table_to_df(t) has read t right after a successful load of t,
\* which found t holding rows under other columns
C2_Witness ==
    \E t \in Threads :
        /\ pc[t] = "rd_exit" /\ frame[t].op = "table_to_df" /\ frame[t].err = ""
        /\ ret[t].op = Load /\ ret[t].status = "ok"
        /\ ret[t].args.table_name = frame[t].args.table_name
        /\ ret[t].before.nrows > 0
        /\ ret[t].before.columns # ColumnNames(ret[t].args.df.cols)
        /\ frame[t].value.df.nrows = ret[t].args.df.nrows

\* C3: every connection is opened by one call and closed when that call leaves
\* its with block, on the raising paths too: an open connection belongs to a
\* call in progress, none is open once the calls are over, and no connection
\* serves two calls.
C3_ConnectionsScoped ==
    /\ \A c \in conns :
          \E t \in threads :
              pc[t] # "idle" /\ frame[t].conn = c.id /\ frame[t].call = c.call
    /\ \A c1, c2 \in conns : c1.id = c2.id => c1 = c2
    /\ AllIdle => conns = {}
    /\ \A t, u \in Threads :
          /\ ConnIds(frame[t].trace) \cap ConnIds(ret[u].trace) = {}
          /\ t # u => /\ ConnIds(frame[t].trace) \cap ConnIds(frame[u].trace) = {}
                      /\ ConnIds(ret[t].trace) \cap ConnIds(ret[u].trace) = {}

\* C3's case: a call whose statement raised is over and has left nothing open
C3_Witness ==
    /\ AllIdle
    /\ conns = {}
    /\ \E t \in Threads :
          /\ ret[t].trace # <<>>
          /\ ret[t].status \notin {"ok", ""}
          /\ ret[t].op \in {"create_database", "execute_sql", "table_to_df"}

CdTraceOk(tr) ==
    /\ Len(tr) <= 2
    /\ Len(tr) >= 1 => tr[1].kinds = <<"COMMIT">>
    /\ Len(tr) = 2 =>
          /\ tr[2].kinds = <<"CREATE_DATABASE">>
          /\ tr[1].err = ""
          /\ tr[1].conn = tr[2].conn
          /\ ~tr[2].intx

\* C4: create_database issues COMMIT before CREATE DATABASE on the same
\* connection, so CREATE DATABASE never arrives inside an open transaction,
\* and does not issue CREATE DATABASE when the COMMIT fails.
C4_CommitBeforeCreateDatabase ==
    \A t \in Threads :
        /\ frame[t].op = "create_database" => CdTraceOk(frame[t].trace)
        /\ ret[t].op = "create_database" => CdTraceOk(ret[t].trace)

\* C4's case: a create_database whose COMMIT failed is over
C4_Witness ==
    \E t \in Threads :
        /\ ret[t].op = "create_database"
        /\ Len(ret[t].trace) = 1
        /\ ret[t].trace[1].err # ""

\* C5: create_database(name) on a name that does not exist succeeds and the
\* database exists afterwards; on a name that exists it fails with the
\* driver's duplicate-database error, which is the error the caller gets, and
\* the failing call changes neither the databases nor the session's fields.
\* (OperationalError stands for the statement not reaching the server.)
C5_DuplicateCreateFails ==
    [][\A t \in Threads :
          /\ (pc[t] = "cd_create" /\ pc'[t] = "cd_exit") =>
                LET name == frame[t].args.name
                    e == frame'[t].err
                IN  /\ name \in databases =>
                          /\ e # ""
                          /\ e # "OperationalError" => e = "DuplicateDatabase"
                    /\ (name \notin databases /\ e # "OperationalError") =>
                          /\ e = ""
                          /\ databases' = databases \cup {name}
                    /\ e # "" => databases' = databases
          /\ (pc[t] = "cd_exit" /\ pc'[t] = "idle") =>
                /\ ret'[t].status = IF frame[t].err = "" THEN "ok" ELSE frame[t].err
                /\ ret'[t].status = "ok" => frame[t].args.name \in databases
          /\ (frame[t].op = "create_database" /\ pc'[t] # pc[t]) =>
                /\ self' = self
                /\ databases' # databases => pc[t] = "cd_create"
      ]_vars

\* C5's case: the second create_database("sales") has failed with the
\* duplicate-database error
C5_Witness ==
    \E t \in Threads :
        /\ ret[t].op = "create_database"
        /\ ret[t].args.name = "sales"
        /\ ret[t].status = "DuplicateDatabase"
        /\ "sales" \in databases
        /\ self = NewSession

\* the session without the three fields the load and the DDL generator assign
Parameters(s) ==
    [s EXCEPT !.insert_table_sql_query = UnsetSql, !.table_name = UnsetName,
              !.data = UnsetData]

\* C8 as stated: once the calls are over the session holds, beyond its
\* construction-time parameters and base handle, the generated DDL string only.
C8_OnlyDdlStringRetained ==
    AllIdle => [self EXCEPT !.insert_table_sql_query = UnsetSql] = NewSession

\* C8 amended: beyond its construction-time parameters and base handle the
\* session holds the most recently generated DDL string and the table name and
\* data of the most recent create_staging_table_then_insert_data call, which
\* that call assigns (lines 84-85) and no other operation changes; no query
\* result is stored in it.
C8_SessionRetainsLastLoad ==
    [][ /\ Parameters(self') = NewSession
        /\ self'.table_name # self.table_name =>
              \E t \in threads : /\ pc[t] = "ld_set_table"
                                 /\ self'.table_name = frame[t].args.table_name
        /\ self'.data # self.data =>
              \E t \in threads : /\ pc[t] = "ld_set_data"
                                 /\ self'.data = frame[t].args.df
        /\ self'.insert_table_sql_query # self.insert_table_sql_query =>
              \E t \in threads :
                  /\ frame[t].op \in {Load, "create_staging_table_sql_from_df"}
                  /\ Kinds(ParseScript(self'.insert_table_sql_query))
                       = <<"DROP_TABLE", "CREATE_TABLE">>
        /\ \A t \in Threads :
              (ret'[t] # ret[t] /\ ret'[t].op = Load) =>
                  /\ self'.table_name = ret'[t].args.table_name
                  /\ self'.data = ret'[t].args.df
      ]_vars

\* C8's case: a table has been loaded and read back, the calls are over, and the
\* session still holds the data and the table name of the load
C8_Witness ==
    /\ AllIdle
    /\ \E t \in Threads :
          /\ ret[t].op = "table_to_df"
          /\ ret[t].status = "ok"
          /\ ret[t].value.df.nrows > 0
          /\ self.table_name = ret[t].args.table_name
    /\ self.data \in LoadData
    /\ self.insert_table_sql_query # UnsetSql

\* C9: get_engine_for(dbname) returns a new handle built from the session's
\* user, password, host and port and dbname, distinct from the base handle and
\* from every handle returned before, and changes no session field, the base
\* handle included: every connection the session's operations open is on the
\* base database named at construction.
C9_GetEngineForPure ==
    [][ /\ \A t \in Threads :
              (pc[t] = "ge_body" /\ pc'[t] = "idle") =>
                  LET e == ret'[t].value.engine
                  IN  /\ ret'[t].status = "ok"
                      /\ self' = self
                      /\ e.url = connection_string(self.user, self.password, self.host,
                                                   self.port, frame[t].args.name)
                      /\ UrlDatabase(e.url) = frame[t].args.name
                      /\ e.id # self.engine.id
                      /\ \A h \in handles : h.id # e.id
                      /\ e \in handles'
                      /\ databases' = databases
                      /\ tables' = tables
                      /\ conns' = conns
        /\ self'.engine = NewSession.engine
        /\ \A c \in conns' : c.db = NewSession.base_db
      ]_vars

\* C9's case: after get_engine_for("sales") has returned its handle, a later
\* operation of the session has a connection open, on the base database
C9_Witness ==
    /\ \E h \in handles : UrlDatabase(h.url) = "sales"
    /\ \E t \in Threads : ret[t].op = "get_engine_for" /\ ret[t].status = "ok"
    /\ \E c \in conns : c.db = DefaultBaseDb
    /\ self.engine = NewSession.engine

\* C10: two threads call create_staging_table_then_insert_data on the same
\* session, one with (t1, d1) and one with (t2, d2), t1 # t2; whenever both
\* calls succeed, t1 exists with d1's columns and rows and t2 with d2's.
C10_ConcurrentLoadsIndependent ==
    ( /\ AllIdle
      /\ ncalls = 2
      /\ \A t \in Threads : ret[t].op = Load /\ ret[t].status = "ok"
      /\ ret[1].args.table_name # ret[2].args.table_name )
    => \A t \in Threads :
          LET tb == TableAt(tables, ret[t].args.table_name)
          IN  /\ tb.exists
              /\ ColumnNames(tb.cols) = ColumnNames(ret[t].args.df.cols)
              /\ tb.rows = ret[t].args.df.nrows

====
